---------------------------- MODULE Spec2Model ----------------------------
(***************************************************************************)
(* Model of the resume service: the document builder and fetcher of        *)
(* main.py, and the HTTP handlers and the uploader of app.py.              *)
(*                                                                         *)
(* Python values.  A dict is [py |-> "dict", v |-> f] with f a function    *)
(* on its keys, a list is [py |-> "list", v |-> s] with s a sequence; a    *)
(* string is a TLA+ string.  The tag is what isinstance() reads.           *)
(***************************************************************************)
EXTENDS Integers, Sequences, FiniteSets, TLC

\* ------------------------------------------------------------- bounds
NumReqs == 2         \* requests the server handles (each in its own thread)
MaxClock == 1        \* seconds the wall clock may advance
MaxGroups == 2       \* longest skills list of the builder's inputs

\* ------------------------------------------------------ Python values
Dict(f) == [py |-> "dict", v |-> f]
List(s) == [py |-> "list", v |-> s]
EmptyDict == Dict(<<>>)
EmptyList == List(<<>>)
None == [py |-> "NoneType", v |-> <<>>]
\* bool(x) of a container, and of a string
Truthy(x) == DOMAIN x.v # {}
TruthyStr(s) == s # ""
Has(d, k) == k \in DOMAIN d.v
\* d.get(k, default)
Get(d, k, default) == IF Has(d, k) THEN d.v[k] ELSE default
IsDict(x) == x.py = "dict"
\* d without key k (the dict left by d.pop(k, ...))
Without(d, k) == Dict([j \in (DOMAIN d.v) \ {k} |-> d.v[j]])

RECURSIVE Flatten(_)
Flatten(ss) == IF ss = <<>> THEN <<>> ELSE Head(ss) \o Flatten(Tail(ss))

\* ------------------------------------------------------------ fetcher
FetchFailures == {"timeout", "connection", "http", "json", "other"}

\* fetch(url): the parsed body on success, {} on every failure; never raises
fetch(outcome) ==
    IF outcome.kind = "ok" THEN outcome.json ELSE EmptyDict

\* --------------------------------------------------- document builder
\* One appended NoEscape item: a tag and its strings.
Raw(s) == [t |-> "raw", v |-> <<s>>]
NameLine == Raw("\\textbf{\\Huge Sai Yerni Akhil Madabattula}")
SectionLine(name) == [t |-> "section", v |-> <<name>>]
RuleLine == Raw("{\\color{MainBlue}\\hrule height 0.5mm}")
BeginItemize == Raw("\\begin{itemize}[leftmargin=*]")
ItemSep == Raw("\\setlength{\\itemsep}{0.02em}")
EndItemize == Raw("\\end{itemize}")

DataKeys == <<"personalInfo", "socialLinks", "workExperience", "skills">>

\* Resume.__init__: the object, or the exception the constructor raises.
\* itemgetter raises KeyError on the first key the fetched mapping lacks.
NewResume(given, data, outcome) ==
    IF given /\ Truthy(data)
    THEN [raised |-> "", data |-> data, doc |-> <<>>]
    ELSE LET d == fetch(outcome)
             missing == {i \in 1..Len(DataKeys) : ~Has(d, DataKeys[i])}
             orElse(x, e) == IF Truthy(x) THEN x ELSE e
         IN  IF missing # {}
             THEN [raised |-> "KeyError", data |-> EmptyDict, doc |-> <<>>]
             ELSE [raised |-> "",
                   data |-> Dict(
                       ("workEx" :> orElse(d.v["workExperience"], EmptyList))
                    @@ ("socialLinks" :> orElse(d.v["socialLinks"], EmptyDict))
                    @@ ("personalInfo" :> orElse(d.v["personalInfo"], EmptyDict))
                    @@ ("skills" :> orElse(d.v["skills"], EmptyDict))),
                   doc |-> <<>>]

SocialKeys == <<"linkedin", "github", "website", "email", "phone">>

LinkOf(social, k) ==
    CASE k = "linkedin" -> <<"\\href", social.v[k], "LinkedIn">>
      [] k = "github"   -> <<"\\href", social.v[k], "GitHub">>
      [] k = "website"  -> <<"\\href", social.v[k], "saiyerniakhil.in">>
      [] k = "email"    -> <<"\\href", "mailto://", social.v[k], social.v[k]>>
      [] OTHER          -> <<social.v[k]>>

\* Resume.createHeader: the items it appends
createHeader(data) ==
    LET social == Get(data, "socialLinks", EmptyDict)
        links == Flatten([i \in 1..Len(SocialKeys) |->
                     IF Has(social, SocialKeys[i])
                     THEN <<LinkOf(social, SocialKeys[i])>> ELSE <<>>])
    IN  <<Raw("\\begin{center}"), NameLine, Raw("\\end{center}"), Raw("\\vspace{2mm}")>>
        \o (IF links # <<>>
            THEN <<Raw("\\begin{center}"),
                   [t |-> "links", v |-> Flatten(links)],
                   Raw("\\end{center}")>>
            ELSE <<>>)

JobItems(job, idx, n) ==
    LET descriptions == Get(job, "description", EmptyList)
    IN  <<Raw("\\noindent"),
          [t |-> "jobhead", v |-> <<Get(job, "role", ""), Get(job, "period", "")>>],
          [t |-> "jobsub", v |-> <<Get(job, "company", ""), Get(job, "location", "")>>]>>
        \o (IF Truthy(descriptions)
            THEN <<BeginItemize, ItemSep>>
                 \o [i \in 1..Len(descriptions.v) |->
                        [t |-> "item", v |-> <<descriptions.v[i]>>]]
                 \o <<EndItemize>>
            ELSE <<>>)
        \o (IF idx < n - 1 THEN <<Raw("\\vspace{2mm}")>> ELSE <<>>)

\* Resume.createWorkExSection
createWorkExSection(data) ==
    LET got == Get(data, "workEx", EmptyList)
        work_ex == IF IsDict(got) THEN <<got>> ELSE got.v
    IN  <<SectionLine("Work Experience"), RuleLine, Raw("\\vspace{3mm}")>>
        \o Flatten([i \in 1..Len(work_ex) |-> JobItems(work_ex[i], i - 1, Len(work_ex))])

SkillBulletWrong(skill) ==
    LET skill_type == Get(skill, "type", "")
        values == Get(skill, "values", EmptyList)
    IN  IF TruthyStr(skill_type)
        THEN <<[t |-> "skill", v |-> <<skill_type>> \o values.v]>>
        ELSE <<>>

\* one pass of the loop of createSkills over a group
SkillBullet(skill) ==
    LET skill_type == Get(skill, "type", "")
        values == Get(skill, "values", EmptyList)
    IN  IF TruthyStr(skill_type) /\ Truthy(values)
        THEN <<[t |-> "skill", v |-> <<skill_type>> \o values.v]>>
        ELSE <<>>

\* Resume.createSkills
createSkills(data) ==
    LET skills == Get(data, "skills", EmptyList)
    IN  <<SectionLine("Skills"), RuleLine, Raw("\\vspace{3mm}")>>
        \o (IF Truthy(skills)
            THEN <<BeginItemize, ItemSep>>
                 \o Flatten([i \in 1..Len(skills.v) |-> SkillBullet(skills.v[i])])
                 \o <<EndItemize>>
            ELSE <<>>)

\* Resume.createEducation: fixed text
createEducation ==
    <<SectionLine("Education"), RuleLine, Raw("\\vspace{3mm}"),
      Raw("\\noindent"),
      Raw("\\textbf{University of Wisconsin,} United States \\hfill Jan 2023 - Aug 2024"),
      Raw("M.S. Computer Science \\hfill GPA: 3.8"),
      Raw("Relevant Courses"),
      Raw("\\vspace{3mm}"),
      Raw("\\noindent"),
      Raw("\\textbf{Sathyabama Institute of Science and Technology,} Chennai, India \\hfill July 2016 - May 2020"),
      Raw("B.E. Computer Science and Engineering \\hfill GPA: 8.45"),
      Raw("Courses")>>

createSkillsFirst(data, output_filename) ==
    [doc |-> createHeader(data)
             \o (IF Has(data, "skills") /\ Truthy(data.v["skills"])
                 THEN createSkills(data) ELSE <<>>)
             \o (IF Has(data, "workEx") /\ Truthy(data.v["workEx"])
                 THEN createWorkExSection(data) ELSE <<>>)
             \o createEducation,
     name |-> <<output_filename, ".pdf">>]

\* Resume.create up to generate_pdf: the document it assembles and the
\* file name it returns
create(data, output_filename) ==
    [doc |-> createHeader(data)
             \o (IF Has(data, "workEx") /\ Truthy(data.v["workEx"])
                 THEN createWorkExSection(data) ELSE <<>>)
             \o (IF Has(data, "skills") /\ Truthy(data.v["skills"])
                 THEN createSkills(data) ELSE <<>>)
             \o createEducation,
     name |-> <<output_filename, ".pdf">>]

\* ------------------------------------------------------------- inputs
Job1 == Dict(("role" :> "Software Developer") @@ ("company" :> "GEICO Insurance")
             @@ ("description" :> List(<<"Built the platform", "Shipped a CLI">>)))
Job2 == Dict(("role" :> "Intern") @@ ("period" :> "2019") @@ ("location" :> "Chennai")
             @@ ("description" :> EmptyList))
Group1 == Dict(("type" :> "Languages") @@ ("values" :> List(<<"Python", "Java">>)))
Social1 == Dict("email" :> "a@b.com")
Social2 == Dict(("github" :> "https://github.com/x") @@ ("phone" :> "+1 414"))

\* bodies request.get_json() hands to POST /generate-resume
PostBodies ==
    { None,
      EmptyDict,
      Dict("foo" :> "1"),
      Dict("uploadToGcs" :> TRUE),
      Dict("socialLinks" :> Social1),
      Dict(("socialLinks" :> Social1) @@ ("uploadToGcs" :> TRUE)),
      Dict(("workEx" :> List(<<Job1>>)) @@ ("skills" :> List(<<Group1>>))
           @@ ("uploadToGcs" :> TRUE)) }

\* values of the query parameter upload_to_gcs ("" when it is not given)
QueryValues == {"", "true", "True", "false"}
\* str.lower() on the query values
Lower(s) == IF s = "True" THEN "true" ELSE s

\* what the remote data source answers
FullJson == Dict(("personalInfo" :> Dict("name" :> "Sai"))
                 @@ ("socialLinks" :> Social2)
                 @@ ("workExperience" :> List(<<Job1, Job2>>))
                 @@ ("skills" :> List(<<Group1>>)))
PartJson == Dict(("socialLinks" :> Social2) @@ ("workExperience" :> List(<<Job1>>)))
FetchOutcomes ==
    {[kind |-> k, json |-> EmptyDict] : k \in FetchFailures}
    \cup {[kind |-> "ok", json |-> j] : j \in {FullJson, PartJson}}

\* ------------------------------------------------------ service state
Reqs == 1..NumReqs
StartDir == 0                  \* the directory the service was started in
Tmp(r) == r                    \* the directory mkdtemp gives request r
NoDir == -1
NoFile == 0                    \* no resume.pdf in a directory

VARIABLES
    pc,         \* pc[r]: where request r's handler stands
    request,    \* request[r]: the request as received
    frame,      \* frame[r]: the handler's locals, gone when it returns
    response,   \* response[r]: what the handler returned to the WSGI layer
    cwd,        \* the process working directory
    dirs,       \* the directories that exist
    files,      \* files[d]: the request whose build wrote d/resume.pdf, or NoFile
    config,     \* GCS_BUCKET_NAME and storage_client, set at import
    blobs,      \* the names of the objects in the bucket
    did,        \* did[r]: history, what request r has done so far
    entryCwd,   \* entryCwd[r]: history, the working directory when r's handler began
    main        \* main.py run as a script: Resume(data).create()

vars == <<pc, request, frame, response, cwd, dirs, files, config, blobs, did, entryCwd, main>>

NoPath == [dir |-> NoDir, name |-> <<>>]
NoResp == [status |-> 0, type |-> "", error |-> "", success |-> "", message |-> "",
           gcs_url |-> <<>>, file |-> NoFile]
ErrorResp(status, msg) == [NoResp EXCEPT !.status = status, !.type = "json", !.error = msg]
UploadedResp(url) ==
    [NoResp EXCEPT !.status = 200, !.type = "json", !.success = "true",
                   !.message = "Resume generated and uploaded to GCS", !.gcs_url = url]
SkippedResp ==
    [NoResp EXCEPT !.status = 500, !.type = "json", !.success = "false",
                   !.message = "Resume generated but GCS upload failed (bucket not configured)"]
PdfResp(file) == [NoResp EXCEPT !.status = 200, !.type = "pdf", !.file = file]

NoRequest == [kind |-> "", body |-> EmptyDict, upload |-> FALSE]
NoFrame == [flag |-> FALSE, data |-> EmptyDict, doc |-> <<>>,
            original_cwd |-> NoDir, pdf_path |-> NoPath, result |-> NoResp, exc |-> ""]
NoMain == [pc |-> "off", data |-> EmptyDict, doc |-> <<>>, out |-> <<>>, raised |-> ""]

\* module import of app.py: the client exists only if a bucket is named,
\* and not even then when storage.Client() raised
Configs == { [GCS_BUCKET_NAME |-> "", storage_client |-> FALSE],
             [GCS_BUCKET_NAME |-> "my-bucket", storage_client |-> FALSE],
             [GCS_BUCKET_NAME |-> "my-bucket", storage_client |-> TRUE] }

\* the service after import, no request received yet
Started ==
    /\ pc = [r \in Reqs |-> "idle"]
    /\ request = [r \in Reqs |-> NoRequest]
    /\ frame = [r \in Reqs |-> NoFrame]
    /\ response = [r \in Reqs |-> NoResp]
    /\ cwd = StartDir
    /\ dirs = {StartDir}
    /\ files = [d \in {StartDir} \cup {Tmp(r) : r \in Reqs} |-> NoFile]
    /\ config \in Configs
    /\ blobs = {}
    /\ did = [r \in Reqs |-> {}]
    /\ entryCwd = [r \in Reqs |-> NoDir]

Init == Started /\ main = NoMain

\* requests are numbered in their order of arrival
MayArrive(r) == pc[r] = "idle" /\ \A q \in Reqs : q < r => pc[q] # "idle"

\* ------------------------------------------------------------ service
GateBothKeys(data) ==
    IF ~Truthy(data) THEN "No JSON data provided"
    ELSE IF ~Has(data, "workEx") \/ ~Has(data, "socialLinks")
         THEN "Either workEx or socialLinks must be provided"
         ELSE ""

\* the validation of generate_resume: the 400 message, or "" to go on
Gate(data) ==
    IF ~Truthy(data) THEN "No JSON data provided"
    ELSE IF ~Has(data, "workEx") /\ ~Has(data, "socialLinks")
         THEN "Either workEx or socialLinks must be provided"
         ELSE ""

\* The handler from the with statement to original_cwd = os.getcwd():
\* mkdtemp, the Resume constructor, getcwd.  Nothing before getcwd reads or
\* writes what another request can see, so the three are one step, taken
\* when getcwd runs.  getcwd fails when the working directory was removed.
Enter(r, kind, flag, data, outcome) ==
    LET res == NewResume(kind = "POST", data, outcome)
        failed == IF kind = "GET" /\ outcome.kind # "ok" THEN {"fetch failed"} ELSE {}
        raised == IF res.raised # "" THEN res.raised
                  ELSE IF cwd \notin dirs THEN "FileNotFoundError" ELSE ""
    IN  /\ dirs' = dirs \cup {Tmp(r)}
        /\ frame' = [frame EXCEPT ![r] =
                       [NoFrame EXCEPT !.flag = flag, !.data = res.data, !.exc = raised,
                                       !.original_cwd = IF raised = "" THEN cwd ELSE NoDir]]
        /\ pc' = [pc EXCEPT ![r] = IF raised = "" THEN "chdir" ELSE "exit"]
        /\ did' = [did EXCEPT ![r] = {"mkdtemp", "Resume"} \cup failed
                                     \cup (IF res.raised = "" THEN {"getcwd"} ELSE {})]
        /\ UNCHANGED response

\* POST /generate-resume: the validation, the pop of uploadToGcs, then Enter
ReceivePost(r) ==
    /\ MayArrive(r)
    /\ \E data \in PostBodies :
         LET refusal == Gate(data)
         IN  /\ request' = [request EXCEPT ![r] =
                               [kind |-> "POST", body |-> data,
                                upload |-> refusal = "" /\ Get(data, "uploadToGcs", FALSE)]]
             /\ IF refusal # ""
                THEN /\ response' = [response EXCEPT ![r] = ErrorResp(400, refusal)]
                     /\ pc' = [pc EXCEPT ![r] = "done"]
                     /\ UNCHANGED <<frame, dirs, did>>
                ELSE Enter(r, "POST", Get(data, "uploadToGcs", FALSE),
                           Without(data, "uploadToGcs"),
                           [kind |-> "none", json |-> EmptyDict])
    /\ entryCwd' = [entryCwd EXCEPT ![r] = cwd]
    /\ UNCHANGED <<cwd, files, config, blobs, main>>

\* GET /generate-resume-from-api: the query parameter, then Enter
ReceiveGet(r) ==
    /\ MayArrive(r)
    /\ \E q \in QueryValues, outcome \in FetchOutcomes :
         LET upload_to_gcs_flag == Lower(IF q = "" THEN "false" ELSE q) = "true"
         IN  /\ Enter(r, "GET", upload_to_gcs_flag, EmptyDict, outcome)
             /\ request' = [request EXCEPT ![r] =
                               [kind |-> "GET", body |-> EmptyDict,
                                upload |-> upload_to_gcs_flag]]
    /\ entryCwd' = [entryCwd EXCEPT ![r] = cwd]
    /\ UNCHANGED <<cwd, files, config, blobs, main>>

\* os.chdir(tmpdir)
Chdir(r) ==
    /\ pc[r] = "chdir"
    /\ cwd' = Tmp(r)
    /\ pc' = [pc EXCEPT ![r] = "create"]
    /\ did' = [did EXCEPT ![r] = @ \cup {"chdir"}]
    /\ UNCHANGED <<request, frame, response, dirs, files, config, blobs, entryCwd, main>>

OutputDirOwn(r) == Tmp(r)

\* the directory generate_pdf('resume') writes into: the working directory
OutputDir(r) == cwd

\* pdf_filename = resume.create(output_filename='resume');
\* pdf_path = os.path.join(tmpdir, pdf_filename)
Create(r) ==
    /\ pc[r] = "create"
    /\ \E toolchain \in BOOLEAN :
         LET made == create(frame[r].data, "resume")
             dest == OutputDir(r)
             raised == IF dest \notin dirs THEN "FileNotFoundError"
                       ELSE IF ~toolchain THEN "CalledProcessError" ELSE ""
         IN  /\ dest \notin dirs => toolchain       \* toolchain not run: one choice
             /\ files' = IF raised = "" THEN [files EXCEPT ![dest] = r] ELSE files
             /\ frame' = [frame EXCEPT
                            ![r].doc = made.doc,
                            ![r].exc = raised,
                            ![r].pdf_path = IF raised = ""
                                            THEN [dir |-> Tmp(r), name |-> made.name]
                                            ELSE NoPath]
             /\ pc' = [pc EXCEPT ![r] = IF raised # "" THEN "finally"
                                        ELSE IF frame[r].flag THEN "upload"
                                        ELSE "send_file"]
             /\ did' = [did EXCEPT ![r] =
                          @ \cup {"create"}
                            \cup (IF raised = "" THEN {"built"} ELSE {})
                            \cup (IF cwd \in {Tmp(q) : q \in Reqs \ {r}}
                                  THEN {"cwd in another tmpdir"} ELSE {})]
    /\ UNCHANGED <<request, response, cwd, dirs, config, blobs, entryCwd, main>>

\* the file a path names, NoFile when there is none
FileAt(path) == IF path.dir \in dirs THEN files[path.dir] ELSE NoFile

TimestampedName(t) == [prefix |-> "resumes/", stem |-> "resume_", stamp |-> t, ext |-> ".pdf"]
FixedName == [prefix |-> "", stem |-> "resume", stamp |-> -1, ext |-> ".pdf"]
NoName == [prefix |-> "", stem |-> "", stamp |-> -1, ext |-> ""]

\* upload_to_gcs(file_path, destination_blob_name), with the clock reading
\* and whether the backend accepts the write; url <<>> is None
upload_to_gcs(file, destination_blob_name, clock, backend) ==
    IF config.GCS_BUCKET_NAME = "" \/ ~config.storage_client
    THEN [called |-> FALSE, raised |-> "", key |-> NoName, url |-> <<>>]
    ELSE LET name == IF destination_blob_name = NoName THEN TimestampedName(clock)
                     ELSE destination_blob_name
         IN  IF file = NoFile \/ ~backend
             THEN [called |-> TRUE, raised |-> "UploadError", key |-> name, url |-> <<>>]
             ELSE [called |-> TRUE, raised |-> "", key |-> name,
                   url |-> <<"gs://", config.GCS_BUCKET_NAME, "/", name>>]

\* the destination name each handler passes
Destination(kind) == IF kind = "GET" THEN FixedName ELSE NoName

\* if upload_to_gcs_flag: gcs_url = upload_to_gcs(...); return the JSON answer
Upload(r) ==
    /\ pc[r] = "upload"
    /\ \E backend \in BOOLEAN, clock \in 0..MaxClock :
         LET file == FileAt(frame[r].pdf_path)
             up == upload_to_gcs(file, Destination(request[r].kind), clock, backend)
         IN  /\ (~up.called \/ file = NoFile) => backend     \* backend not asked: one choice
             /\ up.key.stamp = -1 => clock = 0               \* clock not read: one choice
             /\ blobs' = IF up.called /\ up.raised = "" THEN blobs \cup {up.key} ELSE blobs
             /\ frame' = [frame EXCEPT
                            ![r].exc = up.raised,
                            ![r].result = IF up.raised # "" THEN NoResp
                                          ELSE IF up.url # <<>> THEN UploadedResp(up.url)
                                          ELSE SkippedResp]
             /\ did' = [did EXCEPT ![r] = @ \cup {"upload_to_gcs"}
                          \cup (IF up.called THEN {"backend"} ELSE {})
                          \cup (IF up.called /\ up.raised = "" THEN {"stored"} ELSE {})]
    /\ pc' = [pc EXCEPT ![r] = "finally"]
    /\ UNCHANGED <<request, response, cwd, dirs, files, config, entryCwd, main>>

\* return send_file(pdf_path, ...): the file is opened here
SendFile(r) ==
    /\ pc[r] = "send_file"
    /\ LET file == FileAt(frame[r].pdf_path)
       IN  /\ frame' = [frame EXCEPT
                          ![r].exc = IF file = NoFile THEN "FileNotFoundError" ELSE "",
                          ![r].result = IF file = NoFile THEN NoResp ELSE PdfResp(file)]
           /\ did' = [did EXCEPT ![r] = @ \cup (IF file = NoFile THEN {} ELSE {"open"})]
    /\ pc' = [pc EXCEPT ![r] = "finally"]
    /\ UNCHANGED <<request, response, cwd, dirs, files, config, blobs, entryCwd, main>>

RestoreOnSuccess(r) ==
    /\ pc[r] = "finally"
    /\ IF frame[r].exc = "" /\ frame[r].original_cwd \in dirs
       THEN cwd' = frame[r].original_cwd
       ELSE UNCHANGED cwd
    /\ pc' = [pc EXCEPT ![r] = "exit"]
    /\ UNCHANGED <<request, frame, response, dirs, files, config, blobs, did, entryCwd, main>>

\* finally: os.chdir(original_cwd); raising here replaces the return value
Restore(r) ==
    /\ pc[r] = "finally"
    /\ IF frame[r].original_cwd \in dirs
       THEN /\ cwd' = frame[r].original_cwd
            /\ UNCHANGED frame
       ELSE /\ frame' = [frame EXCEPT ![r].exc = "FileNotFoundError", ![r].result = NoResp]
            /\ UNCHANGED cwd
    /\ pc' = [pc EXCEPT ![r] = "exit"]
    /\ UNCHANGED <<request, response, dirs, files, config, blobs, did, entryCwd, main>>

RemovedNothing(r) == dirs

\* the directories left when TemporaryDirectory cleans up
Removed(r) == dirs \ {Tmp(r)}

\* leaving the with block removes the directory; then the handler returns
\* its value, or except Exception turns what was raised into a 500
Cleanup(r) ==
    /\ pc[r] = "exit"
    /\ dirs' = Removed(r)
    /\ files' = IF Tmp(r) \in dirs' THEN files ELSE [files EXCEPT ![Tmp(r)] = NoFile]
    /\ LET answer == IF frame[r].exc # "" THEN ErrorResp(500, frame[r].exc)
                     ELSE frame[r].result
       IN  /\ response' = [response EXCEPT ![r] = answer]
           /\ pc' = [pc EXCEPT ![r] = IF answer.type = "pdf" THEN "sending" ELSE "done"]
    /\ frame' = [frame EXCEPT ![r] = NoFrame]
    /\ did' = [did EXCEPT ![r] = @ \cup {"rmtree"}]
    /\ UNCHANGED <<request, cwd, config, blobs, entryCwd, main>>

\* the WSGI layer streams the open file to the caller
Send(r) ==
    /\ pc[r] = "sending"
    /\ pc' = [pc EXCEPT ![r] = "done"]
    /\ did' = [did EXCEPT ![r] = @ \cup {"sent"}]
    /\ UNCHANGED <<request, frame, response, cwd, dirs, files, config, blobs, entryCwd, main>>

\* the handler of request r is running
InHandler(r) == pc[r] \notin {"idle", "sending", "done"}
\* request r has arrived and its answer is not fully sent
InFlight(r) == pc[r] \notin {"idle", "done"}

\* the threaded server: any request may take its next step
Next ==
    \E r \in Reqs :
        \/ ReceivePost(r) \/ ReceiveGet(r) \/ Chdir(r) \/ Create(r) \/ Upload(r)
        \/ SendFile(r) \/ Restore(r) \/ Cleanup(r) \/ Send(r)
Spec == Init /\ [][Next]_vars

\* the threaded server when no request asks for an upload
InitStream == Init /\ config.GCS_BUCKET_NAME = ""
StreamNext ==
    \E r \in Reqs :
        \/ ReceivePost(r) /\ ~request'[r].upload
        \/ ReceiveGet(r) /\ ~request'[r].upload
        \/ Chdir(r) \/ Create(r) \/ SendFile(r) \/ Restore(r) \/ Cleanup(r) \/ Send(r)
SpecStream == InitStream /\ [][StreamNext]_vars

\* a server that takes one request at a time
Alone(r) == \A q \in Reqs \ {r} : ~InFlight(q)
SerialNext ==
    \E r \in Reqs :
        \/ Alone(r) /\ ReceivePost(r)
        \/ Alone(r) /\ ReceiveGet(r)
        \/ Chdir(r) \/ Create(r) \/ Upload(r)
        \/ SendFile(r) \/ Restore(r) \/ Cleanup(r) \/ Send(r)
SpecSerial == Init /\ [][SerialNext]_vars

\* ------------------------------------------------ main.py as a script
Restrict(f, S) == [k \in S |-> f[k]]

\* skill groups: type and values each absent, empty or filled
GroupFields == ("type" :> "Languages") @@ ("values" :> List(<<"Python", "Java">>))
EmptyFields == ("type" :> "") @@ ("values" :> EmptyList)
Groups ==
    { Dict([k \in present |-> IF k \in filled THEN GroupFields[k] ELSE EmptyFields[k]]) :
        present \in SUBSET {"type", "values"}, filled \in SUBSET {"type", "values"} }
SkillLists == UNION {[1..n -> Groups] : n \in 0..MaxGroups}

WorkExChoices == <<EmptyList, EmptyDict, Job1, List(<<Job1>>), List(<<Job2, Job1>>)>>
SocialChoices == <<EmptyDict, Social1, Social2>>

\* a record with the keys chosen: 0 leaves the key out
BuildData(w, s, skills, withSkills) ==
    Dict( (IF w = 0 THEN <<>> ELSE ("workEx" :> WorkExChoices[w]))
       @@ (IF s = 0 THEN <<>> ELSE ("socialLinks" :> SocialChoices[s]))
       @@ (IF withSkills THEN ("skills" :> List(skills)) ELSE <<>>) )

InitBuild ==
    /\ Started
    /\ config.GCS_BUCKET_NAME = ""
    /\ \E w \in 0..Len(WorkExChoices), s \in 0..Len(SocialChoices),
          skills \in SkillLists, withSkills \in BOOLEAN :
         /\ ~withSkills => skills = <<>>
         /\ main = [NoMain EXCEPT !.pc = "start", !.data = BuildData(w, s, skills, withSkills)]

\* r = Resume(data=sample_data)
MainConstruct ==
    /\ main.pc = "start"
    /\ \E outcome \in FetchOutcomes :
         LET res == NewResume(TRUE, main.data, outcome)
         IN  /\ Truthy(main.data) => outcome.kind = "timeout"   \* no fetch: one choice
             /\ main' = [main EXCEPT !.pc = IF res.raised = "" THEN "constructed" ELSE "raised",
                                     !.data = res.data, !.raised = res.raised]
    /\ UNCHANGED <<pc, request, frame, response, cwd, dirs, files, config, blobs, did, entryCwd>>

\* r.create()
MainCreate ==
    /\ main.pc = "constructed"
    /\ \E output_filename \in {"resume", "cv"} :
         LET made == create(main.data, output_filename)
         IN  main' = [main EXCEPT !.pc = "created", !.doc = made.doc, !.out = made.name]
    /\ UNCHANGED <<pc, request, frame, response, cwd, dirs, files, config, blobs, did, entryCwd>>

NextBuild == MainConstruct \/ MainCreate
SpecBuild == InitBuild /\ [][NextBuild]_vars

\* ------------------------------------------------------------- claims
\* the headings of a document in their order, the name line counting as
\* the heading of the header
IsHeading(item) == item = NameLine \/ item.t = "section"
Headings(doc) ==
    LET marks == SelectSeq(doc, IsHeading)
    IN  [i \in 1..Len(marks) |-> IF marks[i] = NameLine THEN "header" ELSE marks[i].v[1]]
Filled(data, k) == Has(data, k) /\ Truthy(data.v[k])

\* C8: one create on a fresh Resume appends the header, Work Experience,
\* Skills, Education in that order, with the header and Education once
\* each, Work Experience iff workEx is present and non-empty, Skills iff
\* skills is present and non-empty, and returns <output_filename>.pdf.
C8_SectionOrder ==
    main.pc = "created" =>
        /\ Headings(main.doc) =
              <<"header">>
              \o (IF Filled(main.data, "workEx") THEN <<"Work Experience">> ELSE <<>>)
              \o (IF Filled(main.data, "skills") THEN <<"Skills">> ELSE <<>>)
              \o <<"Education">>
        /\ Len(main.out) = 2 /\ main.out[1] \in {"resume", "cv"} /\ main.out[2] = ".pdf"

\* a build with work experience and skills, and one with neither
C8_Witness ==
    /\ main.pc = "created"
    /\ Headings(main.doc) = <<"header", "Work Experience", "Skills", "Education">>
    /\ main.out = <<"cv", ".pdf">>

\* the groups of a skills list that get a bullet
Qualifies(group) ==
    /\ Has(group, "type") /\ group.v["type"] # ""
    /\ Has(group, "values") /\ group.v["values"].v # <<>>
\* the part of a document from the Skills heading up to the next heading
RECURSIVE UpToHeading(_)
UpToHeading(items) ==
    IF items = <<>> \/ IsHeading(Head(items)) THEN <<>>
    ELSE <<Head(items)>> \o UpToHeading(Tail(items))
RECURSIVE SkillsBody(_)
SkillsBody(doc) ==
    IF doc = <<>> THEN <<>>
    ELSE IF Head(doc) = SectionLine("Skills") THEN UpToHeading(Tail(doc))
    ELSE SkillsBody(Tail(doc))

Returned(r) == pc[r] \in {"sending", "done"}
Configured == config.GCS_BUCKET_NAME # "" /\ config.storage_client

\* C1: when the fetch fails, fetch returns {} without raising, and GET
\* /generate-resume-from-api without upload still answers 200 with a PDF
\* whose document holds only the header and the Education section, not a
\* 500.  (A toolchain failure and a working directory lost to another
\* request are other matters and are left out.)
C1_FetchResilience ==
    \A r \in Reqs :
        (request[r].kind = "GET" /\ "fetch failed" \in did[r] /\ ~request[r].upload) =>
            /\ pc[r] = "exit" => Headings(frame[r].doc) = <<"header", "Education">>
            /\ (Returned(r) /\ response[r].error \notin {"CalledProcessError", "FileNotFoundError"})
                  => (response[r].status = 200 /\ response[r].type = "pdf")

\* C2: POST /generate-resume answers 400 "No JSON data provided" to an
\* empty body and 400 "Either workEx or socialLinks must be provided" to
\* a non-empty body with neither key, in both cases without creating a
\* temporary directory, changing the working directory or invoking the
\* Builder; a body with one of the keys passes and reaches the Builder.
C2_ValidationGate ==
    \A r \in Reqs :
        request[r].kind = "POST" =>
            LET body == request[r].body
                untouched == /\ did[r] = {} /\ Tmp(r) \notin dirs /\ pc[r] = "done"
                             /\ cwd # Tmp(r) /\ frame[r] = NoFrame
            IN  IF ~Truthy(body)
                THEN response[r] = ErrorResp(400, "No JSON data provided") /\ untouched
                ELSE IF ~Has(body, "workEx") /\ ~Has(body, "socialLinks")
                THEN /\ response[r] =
                          ErrorResp(400, "Either workEx or socialLinks must be provided")
                     /\ untouched
                ELSE "Resume" \in did[r] /\ response[r].status # 400

\* one request refused for its keys though its body is not empty, and one
\* with socialLinks alone that got to the Builder
C2_Witness ==
    \E r, q \in Reqs :
        /\ request[r].kind = "POST" /\ request[r].body = Dict("uploadToGcs" :> TRUE)
        /\ response[r].status = 400
        /\ request[q].kind = "POST" /\ request[q].body = Dict("socialLinks" :> Social1)
        /\ "create" \in did[q]

\* C3: with no other request in flight, the working directory is the
\* request's temporary directory when Resume.create runs, and when the
\* handler returns it is what it was at handler entry, on every exit path.
C3_CwdRestored ==
    [][\A r \in Reqs :
          /\ (pc[r] = "create" /\ pc'[r] # "create") => cwd = Tmp(r)
          /\ (~Returned(r) /\ Returned(r)') => cwd' = entryCwd'[r]]_vars

\* a request whose upload raised has returned, and one that streamed
C3_Witness ==
    \E r, q \in Reqs :
        /\ pc[r] = "done" /\ response[r].error = "UploadError" /\ "chdir" \in did[r]
        /\ pc[q] = "done" /\ response[q].type = "pdf"
        /\ cwd = entryCwd[r] /\ cwd = entryCwd[q]

\* C4: two concurrent requests can interleave so that one's create writes
\* resume.pdf while the working directory is the other's temporary
\* directory; the path the handler then uses, its own tmpdir joined with
\* resume.pdf, does not name the file its Builder produced.
C4_WrongDirectory ==
    \A r \in Reqs :
        ("cwd in another tmpdir" \in did[r] /\ pc[r] \in {"upload", "send_file"}) =>
            /\ frame[r].pdf_path.dir = Tmp(r)
            /\ FileAt(frame[r].pdf_path) # r

\* r built in q's directory and is about to send its own path
C4_Witness ==
    \E r, q \in Reqs :
        /\ r # q
        /\ pc[r] = "send_file" /\ "cwd in another tmpdir" \in did[r]
        /\ files[Tmp(q)] = r
        /\ FileAt(frame[r].pdf_path) = NoFile

\* C5 as stated: the temporary directory of a streamed answer is removed
\* only after the response has been fully sent.
C5_RemovedOnlyAfterSent ==
    \A r \in Reqs :
        (response[r].type = "pdf" /\ Tmp(r) \notin dirs) => "sent" \in did[r]

\* C5 amended: the temporary directory of a streamed answer is removed
\* when the handler returns, after send_file has opened the PDF and before
\* the response is sent; its removal never precedes the opening.
C5_RemovedAfterOpened ==
    \A r \in Reqs :
        /\ pc[r] = "sending" => (Tmp(r) \notin dirs /\ "sent" \notin did[r])
        /\ response[r].type = "pdf" =>
              ("open" \in did[r] /\ "rmtree" \in did[r] /\ response[r].file # NoFile)

\* a PDF answer being sent from a directory already removed
C5_Witness ==
    \E r \in Reqs :
        pc[r] = "sending" /\ response[r].type = "pdf" /\ Tmp(r) \notin dirs

\* C6: without a bucket name or without a client, a request that asks for
\* upload and whose build succeeds is answered 500 with success false and
\* the bucket-not-configured message; the backend is not called,
\* upload_to_gcs raises nothing and the PDF is not streamed.
C6_UploadGating ==
    \A r \in Reqs :
        (~Configured /\ request[r].upload /\ "built" \in did[r] /\ Returned(r)) =>
            /\ response[r] = SkippedResp
            /\ "backend" \notin did[r]

\* the keys the two handlers store under
ExpectedKeys(kind) ==
    IF kind = "GET" THEN {FixedName} ELSE {TimestampedName(t) : t \in 0..MaxClock}

\* C7: with storage configured and the backend write succeeding, a request
\* that asks for upload is answered 200 with success true and gcs_url
\* gs://<bucket>/<key>, the key being resumes/resume_<timestamp>.pdf for
\* POST and resume.pdf for GET; a failing write propagates and the answer
\* is a 500 with an error field.
C7_UploadShape ==
    \A r \in Reqs :
        /\ ("stored" \in did[r] /\ Returned(r)) =>
              /\ response[r].status = 200 /\ response[r].success = "true"
              /\ \E k \in ExpectedKeys(request[r].kind) :
                    response[r].gcs_url = <<"gs://", config.GCS_BUCKET_NAME, "/", k>>
        /\ ("backend" \in did[r] /\ "stored" \notin did[r] /\ Returned(r)) =>
              (response[r].status = 500 /\ response[r].error # "")

\* C10: whenever no request is in flight, the working directory is the
\* directory the service was started in, which exists, whatever the
\* interleaving of the requests.
C10_CwdAtRest ==
    (\A r \in Reqs : ~InFlight(r)) => (cwd = StartDir /\ cwd \in dirs)

=============================================================================
